---- MODULE Spec2Model ----
(***************************************************************************)
(* Sign-up form of the authentication app (forms.py) over the User model  *)
(* (models.py).  A string is a sequence of one-character strings, so that *)
(* str.lower(), whitespace stripping and the `in` tests of the validators *)
(* are computed rather than assumed.                                      *)
(*                                                                         *)
(* Each request goes through the steps Django's form machinery runs for   *)
(* SignUpForm: the form is bound to the submitted data, the username and  *)
(* the email fields are cleaned (each of them queries the user table),    *)
(* the password fields are cleaned, clean() and the model-level checks    *)
(* run, and save() writes the row.  Every query and the INSERT are        *)
(* separate statements (autocommit), so requests interleave between them. *)
(***************************************************************************)
EXTENDS Naturals, Sequences, FiniteSets, TLC

VARIABLES
    store,          \* the rows of the user table
    pc,             \* pc[r]: where request r stands
    data,           \* data[r]: the submitted (raw) form data
    cleaned_data,   \* cleaned_data[r]: form.cleaned_data
    errors,         \* errors[r]: form.errors, a set of error kinds per field
    instance,       \* instance[r]: form.instance, the User being built
    commit,         \* commit[r]: the commit argument save() was called with
    result          \* result[r]: how save() ended

vars == <<store, pc, data, cleaned_data, errors, instance, commit, result>>

----------------------------------------------------------------------------
(* Bounds *)

\* New submissions are accepted while the table holds fewer rows than this.
MaxUsers == 2

\* Request slots: r1 and r2 run concurrently; a slot is reused once its
\* response has been sent.
Requests == {"r1", "r2"}

Salts == {"s1", "s2"}

----------------------------------------------------------------------------
(* Strings *)

UpperCase == <<"A","B","C","D","E","F","G","H","I","J","K","L","M",
               "N","O","P","Q","R","S","T","U","V","W","X","Y","Z">>
LowerCase == <<"a","b","c","d","e","f","g","h","i","j","k","l","m",
               "n","o","p","q","r","s","t","u","v","w","x","y","z">>

LowerChar(c) ==
    IF \E i \in DOMAIN UpperCase : UpperCase[i] = c
    THEN LowerCase[CHOOSE i \in DOMAIN UpperCase : UpperCase[i] = c]
    ELSE c

\* str.lower()
Lower(s) == [i \in DOMAIN s |-> LowerChar(s[i])]

\* c in s
Contains(s, c) == \E i \in DOMAIN s : s[i] = c

RECURSIVE LStrip(_)
LStrip(s) == IF s # <<>> /\ Head(s) = " " THEN LStrip(Tail(s)) ELSE s

RECURSIVE RStrip(_)
RStrip(s) ==
    IF s # <<>> /\ s[Len(s)] = " " THEN RStrip(SubSeq(s, 1, Len(s) - 1)) ELSE s

\* str.strip()
Strip(s) == LStrip(RStrip(s))

----------------------------------------------------------------------------
(* Field validators *)

forbidden_usernames ==
    { <<"a","d","m","i","n">>,
      <<"s","e","t","t","i","n","g","s">>,
      <<"n","e","w","s">>,
      <<"a","b","o","u","t">>,
      <<"h","e","l","p">>,
      <<"s","i","g","n","i","n">>,
      <<"s","i","g","n","u","p">>,
      <<"s","i","g","n","o","u","t">>,
      <<"t","e","r","m","s">>,
      <<"p","r","i","v","a","c","y">>,
      <<"c","o","o","k","i","e">>,
      <<"n","e","w">>,
      <<"l","o","g","i","n">>,
      <<"l","o","g","o","u","t">>,
      <<"a","d","m","i","n","i","s","t","r","a","t","o","r">>,
      <<"j","o","i","n">>,
      <<"a","c","c","o","u","n","t">>,
      <<"u","s","e","r","n","a","m","e">>,
      <<"r","o","o","t">>,
      <<"b","l","o","g">>,
      <<"a","u","t","h","e","n","t","i","c","a","t","i","o","n">>,
      <<"u","s","e","r","s">>,
      <<"b","i","l","l","i","n","g">>,
      <<"s","u","b","s","c","r","i","b","e">>,
      <<"r","e","v","i","e","w","s">>,
      <<"r","e","v","i","e","w">>,
      <<"b","l","o","g","s">>,
      <<"e","d","i","t">>,
      <<"m","a","i","l">>,
      <<"e","m","a","i","l">>,
      <<"h","o","m","e">>,
      <<"j","o","b">>,
      <<"j","o","b","s">>,
      <<"c","o","n","t","r","i","b","u","t","e">>,
      <<"n","e","w","s","l","e","t","t","e","r">>,
      <<"s","h","o","p">>,
      <<"p","r","o","f","i","l","e">>,
      <<"r","e","g","i","s","t","e","r">>,
      <<"c","a","m","p","a","i","g","n">>,
      <<".","e","n","v">>,
      <<"d","e","l","e","t","e">>,
      <<"r","e","m","o","v","e">>,
      <<"f","o","r","u","m">>,
      <<"f","o","r","u","m","s">>,
      <<"d","o","w","n","l","o","a","d">>,
      <<"d","o","w","n","l","o","a","d","s">>,
      <<"c","o","n","t","a","c","t">>,
      <<"f","e","e","d">>,
      <<"f","e","e","d","s">>,
      <<"f","a","q">>,
      <<"i","n","t","r","a","n","e","t">>,
      <<"l","o","g">>,
      <<"r","e","g","i","s","t","r","a","t","i","o","n">>,
      <<"s","e","a","r","c","h">>,
      <<"e","x","p","l","o","r","e">>,
      <<"r","s","s">>,
      <<"s","u","p","p","o","r","t">>,
      <<"s","t","a","t","u","s">>,
      <<"s","t","a","t","i","c">>,
      <<"m","e","d","i","a">>,
      <<"s","e","t","t","i","n","g">>,
      <<"c","s","s">>,
      <<"j","s">>,
      <<"f","o","l","l","o","w">>,
      <<"a","c","t","i","v","i","t","y">>,
      <<"q","u","e","s","t","i","o","n","s">>,
      <<"a","r","t","i","c","l","e","s">>,
      <<"n","e","t","w","o","r","k">> }

\* Mutant: the membership test without value.lower().
forbidden_username_validator_cased(value) ==
    IF value \in forbidden_usernames THEN {"ReservedWordError"} ELSE {}

forbidden_username_validator(value) ==
    IF Lower(value) \in forbidden_usernames THEN {"ReservedWordError"} ELSE {}

invalid_username_validator(value) ==
    IF Contains(value, "@") \/ Contains(value, "+") \/ Contains(value, "-")
    THEN {"InvalidCharacterError"}
    ELSE {}

\* User.objects.filter(email__iexact=value).exists()
unique_email_validator(value) ==
    IF \E u \in store : Lower(u.email) = Lower(value)
    THEN {"DuplicateEmailError"}
    ELSE {}

\* Mutant: username__exact in place of username__iexact.
unique_username_exact_validator(value) ==
    IF \E u \in store : u.username = value
    THEN {"DuplicateUsernameError"}
    ELSE {}

\* User.objects.filter(username__iexact=value).exists()
unique_username_ignore_case_validator(value) ==
    IF \E u \in store : Lower(u.username) = Lower(value)
    THEN {"DuplicateUsernameError"}
    ELSE {}

----------------------------------------------------------------------------
(* The form *)

FieldNames == {"username", "email", "password", "confirm_password"}

NoErrors == [f \in FieldNames |-> {}]

NoData == [username |-> <<>>, email |-> <<>>, password |-> <<>>,
           confirm_password |-> <<>>, is_admin |-> FALSE]

EmptyDict == [k \in {} |-> <<>>]

\* A fresh User(): the column defaults of models.py.
NewUser == [username |-> <<>>, email |-> <<>>, password |-> <<>>,
            is_admin |-> FALSE, is_staff |-> FALSE, is_active |-> TRUE]

Put(d, k, v) == [x \in DOMAIN d \cup {k} |-> IF x = k THEN v ELSE d[x]]

Remove(d, k) == [x \in DOMAIN d \ {k} |-> d[x]]

\* dict.get: the empty string stands for None (both are falsy).
Get(d, k) == IF k \in DOMAIN d THEN d[k] ELSE <<>>

\* A form in the middle of full_clean(): cleaned_data and errors.
\* add_error drops the field from cleaned_data.
add_error(form, field, errs) ==
    [cleaned_data |-> Remove(form.cleaned_data, field),
     errors |-> [form.errors EXCEPT ![field] = @ \cup errs]]

\* Field.clean for the required CharField/EmailField declarations: the raw
\* value is stripped (CharField strips by default and no declaration turns
\* it off), an empty value fails as required, otherwise every validator of
\* the field runs and their failures are collected.
clean_field(form, field, raw, failures) ==
    LET value == Strip(raw) IN
    IF value = <<>> THEN add_error(form, field, {"RequiredFieldError"})
    ELSE IF failures # {} THEN add_error(form, field, failures)
    ELSE [form EXCEPT !.cleaned_data = Put(@, field, value)]

\* The validators __init__ appends to the username field.
username_validators(value) ==
    forbidden_username_validator(value)
        \cup invalid_username_validator(value)
        \cup unique_username_ignore_case_validator(value)

\* The validators __init__ appends to the email field.
email_validators(value) == unique_email_validator(value)

clean_password(form) ==
    LET password == Get(form.cleaned_data, "password")
        confirm_password == Get(form.cleaned_data, "confirm_password")
    IN  IF password # <<>> /\ confirm_password # <<>>
           /\ password # confirm_password
        THEN add_error(form, "confirm_password", {"PasswordMismatchError"})
        ELSE form

\* clean(): clean_password(), then the parent's clean(), which changes
\* neither cleaned_data nor errors.
clean(form) == clean_password(form)

\* Mutant: is_admin bound by the form as well.
construct_instance_with_flags(inst, cd, submitted) ==
    [inst EXCEPT !.username = IF "username" \in DOMAIN cd THEN cd["username"] ELSE @,
                 !.email = IF "email" \in DOMAIN cd THEN cd["email"] ELSE @,
                 !.password = IF "password" \in DOMAIN cd THEN cd["password"] ELSE @,
                 !.is_admin = submitted.is_admin]

\* construct_instance: every field of Meta.fields that is a column of User
\* (username, email, password; confirm_password is form-only) and that was
\* cleaned is copied onto the instance; nothing else of the submission is.
construct_instance(inst, cd, submitted) ==
    [inst EXCEPT !.username = IF "username" \in DOMAIN cd THEN cd["username"] ELSE @,
                 !.email = IF "email" \in DOMAIN cd THEN cd["email"] ELSE @,
                 !.password = IF "password" \in DOMAIN cd THEN cd["password"] ELSE @]

\* validate_unique of the model form: an exact-match query for every
\* unique column whose form field has no error so far.
validate_unique(form, inst) ==
    LET f1 == IF form.errors["username"] = {}
                 /\ \E u \in store : u.username = inst.username
              THEN add_error(form, "username", {"DuplicateUsernameError"})
              ELSE form
    IN  IF f1.errors["email"] = {} /\ \E u \in store : u.email = inst.email
        THEN add_error(f1, "email", {"DuplicateEmailError"})
        ELSE f1

\* Mutant: only the password fields are looked at.
HasErrors_passwords_only(errs) ==
    errs["password"] # {} \/ errs["confirm_password"] # {}

\* form.errors is truthy
HasErrors(errs) == \E f \in FieldNames : errs[f] # {}

\* set_password: make_password with a fresh salt.  The encoded value is
\* algorithm$salt$digest; the digest is kept symbolic.
make_password(salt, raw) == <<"pbkdf2_sha256", "$", salt, "$", "#">> \o raw

check_password(raw, encoded) ==
    /\ Len(encoded) >= 5
    /\ encoded = make_password(encoded[3], raw)

\* The unique=True constraints of User.email and User.username: the
\* index compares the stored values exactly, case included.
violates_unique(user) ==
    \E u \in store : u.username = user.username \/ u.email = user.email

----------------------------------------------------------------------------
(* Inputs *)

S_al == <<"a","l">>
S_Al == <<"A","l">>
S_bo == <<"b","o">>
S_Js == <<"J","s">>
S_js_ == <<"j","s"," ">>
S_aplus == <<"a","+">>
E_ab == <<"a","@","b",".","c">>
E_Ab == <<"A","@","b",".","c">>
E_cd == <<"c","@","d",".","e">>
P_p == <<"p">>
P_p_ == <<"p"," ">>
P_q == <<"q">>

\* Submissions of the concurrent specification: valid apart from clashes.
RaceData ==
    [username : {S_al, S_Al}, email : {E_ab, E_Ab, E_cd},
     password : {P_p}, confirm_password : {P_p}, is_admin : {FALSE}]

\* Submissions of the one-request-at-a-time specification.
FormData ==
    [username : {<<>>, S_al, S_Al, S_bo, S_Js, S_js_, S_aplus},
     email : {<<>>, E_ab, E_Ab, E_cd},
     password : {<<>>, P_p, P_p_, P_q},
     confirm_password : {<<>>, P_p, P_q},
     is_admin : BOOLEAN]

----------------------------------------------------------------------------
(* State machine *)

Init ==
    /\ store = {}
    /\ pc = [r \in Requests |-> "idle"]
    /\ data = [r \in Requests |-> NoData]
    /\ cleaned_data = [r \in Requests |-> EmptyDict]
    /\ errors = [r \in Requests |-> NoErrors]
    /\ instance = [r \in Requests |-> NewUser]
    /\ commit = [r \in Requests |-> TRUE]
    /\ result = [r \in Requests |-> "none"]

FormOf(r) == [cleaned_data |-> cleaned_data[r], errors |-> errors[r]]

\* SignUpForm(request.POST): the form is bound to the submission.
Submit(r, d) ==
    /\ pc[r] = "idle"
    /\ Cardinality(store) < MaxUsers
    /\ pc' = [pc EXCEPT ![r] = "username"]
    /\ data' = [data EXCEPT ![r] = d]
    /\ UNCHANGED <<store, cleaned_data, errors, instance, commit, result>>

\* _clean_fields, username: one query against the table.
CleanUsername(r) ==
    /\ pc[r] = "username"
    /\ LET raw == data[r].username
           form == clean_field(FormOf(r), "username", raw,
                               username_validators(Strip(raw)))
       IN  /\ cleaned_data' = [cleaned_data EXCEPT ![r] = form.cleaned_data]
           /\ errors' = [errors EXCEPT ![r] = form.errors]
    /\ pc' = [pc EXCEPT ![r] = "email"]
    /\ UNCHANGED <<store, data, instance, commit, result>>

\* Mutant: the email field is skipped once the username has failed.
CleanEmail_short_circuit(r) ==
    /\ pc[r] = "email"
    /\ LET raw == data[r].email
           form == IF errors[r]["username"] # {} THEN FormOf(r)
                   ELSE clean_field(FormOf(r), "email", raw,
                                    email_validators(Strip(raw)))
       IN  /\ cleaned_data' = [cleaned_data EXCEPT ![r] = form.cleaned_data]
           /\ errors' = [errors EXCEPT ![r] = form.errors]
    /\ pc' = [pc EXCEPT ![r] = "password"]
    /\ UNCHANGED <<store, data, instance, commit, result>>

\* _clean_fields, email: one query against the table.
CleanEmail(r) ==
    /\ pc[r] = "email"
    /\ LET raw == data[r].email
           form == clean_field(FormOf(r), "email", raw,
                               email_validators(Strip(raw)))
       IN  /\ cleaned_data' = [cleaned_data EXCEPT ![r] = form.cleaned_data]
           /\ errors' = [errors EXCEPT ![r] = form.errors]
    /\ pc' = [pc EXCEPT ![r] = "password"]
    /\ UNCHANGED <<store, data, instance, commit, result>>

\* The rest of full_clean(): the password field with its clean_password
\* hook, the confirm_password field, clean(), and _post_clean
\* (construct_instance and validate_unique, which queries the table).
CleanForm(r) ==
    /\ pc[r] = "password"
    /\ LET f1 == clean_password(
                     clean_field(FormOf(r), "password", data[r].password, {}))
           f2 == clean_field(f1, "confirm_password",
                             data[r].confirm_password, {})
           f3 == clean(f2)
           inst == construct_instance(instance[r], f3.cleaned_data, data[r])
           f4 == validate_unique(f3, inst)
       IN  /\ cleaned_data' = [cleaned_data EXCEPT ![r] = f4.cleaned_data]
           /\ errors' = [errors EXCEPT ![r] = f4.errors]
           /\ instance' = [instance EXCEPT ![r] = inst]
    /\ pc' = [pc EXCEPT ![r] = "validated"]
    /\ UNCHANGED <<store, data, commit, result>>

\* SignUpForm.save(commit): the parent's save(commit=False) refuses a form
\* with errors; otherwise the password is hashed and user.save() inserts
\* the row, whatever commit says.
Save(r, c) ==
    /\ pc[r] = "validated"
    /\ pc' = [pc EXCEPT ![r] = "done"]
    /\ commit' = [commit EXCEPT ![r] = c]
    /\ IF HasErrors(errors[r])
       THEN /\ result' = [result EXCEPT ![r] = "ValueError"]
            /\ UNCHANGED <<store, instance>>
       ELSE \E salt \in Salts :
            LET user == [instance[r] EXCEPT
                           !.password = make_password(salt, cleaned_data[r]["password"])]
            IN  /\ instance' = [instance EXCEPT ![r] = user]
                /\ IF violates_unique(user)
                   THEN /\ result' = [result EXCEPT ![r] = "IntegrityError"]
                        /\ UNCHANGED store
                   ELSE /\ result' = [result EXCEPT ![r] = "returned"]
                        /\ store' = store \cup {user}
    /\ UNCHANGED <<data, cleaned_data, errors>>

\* The response is sent and the request's objects are dropped.
Respond(r) ==
    /\ pc[r] = "done"
    /\ pc' = [pc EXCEPT ![r] = "idle"]
    /\ data' = [data EXCEPT ![r] = NoData]
    /\ cleaned_data' = [cleaned_data EXCEPT ![r] = EmptyDict]
    /\ errors' = [errors EXCEPT ![r] = NoErrors]
    /\ instance' = [instance EXCEPT ![r] = NewUser]
    /\ commit' = [commit EXCEPT ![r] = TRUE]
    /\ result' = [result EXCEPT ![r] = "none"]
    /\ UNCHANGED store

\* Concurrent requests.
Next ==
    \E r \in Requests :
        \/ \E d \in RaceData : Submit(r, d)
        \/ CleanUsername(r)
        \/ CleanEmail(r)
        \/ CleanForm(r)
        \/ \E c \in BOOLEAN : Save(r, c)
        \/ Respond(r)

Spec == Init /\ [][Next]_vars

\* One request at a time, arbitrary submissions.
NextForm ==
    \/ \E d \in FormData : Submit("r1", d)
    \/ CleanUsername("r1")
    \/ CleanEmail("r1")
    \/ CleanForm("r1")
    \/ \E c \in BOOLEAN : Save("r1", c)
    \/ Respond("r1")

SpecForm == Init /\ [][NextForm]_vars

----------------------------------------------------------------------------
(* Properties *)

Validated(r) == pc[r] = "validated"

Done(r) == pc[r] = "done"

IExact(a, b) == Lower(a) = Lower(b)

\* C1: no two persisted users have usernames equal under case-insensitive
\* comparison, nor emails equal under case-insensitive comparison, in any
\* state reachable by interleaved sign-up requests.
C1_CaseInsensitiveUnique ==
    \A u, v \in store :
        u # v => /\ ~IExact(u.username, v.username)
                 /\ ~IExact(u.email, v.email)

\* C2: a uniqueness violation met by the INSERT of save() is reported as a
\* duplicate error and never leaves save() as a storage exception.
C2_NoStorageException ==
    \A r \in Requests : result[r] # "IntegrityError"

\* C3: save(commit=False) leaves the table unchanged and returns the
\* unsaved user; save(commit=True) persists it.
C3_CommitFlagRespected ==
    \A r \in Requests :
        Done(r) /\ result[r] = "returned" =>
            (instance[r] \in store <=> commit[r])

\* What the validators of the specification say about a submission d, field
\* by field, against the rows of st.
ExpectedErrors(d, st) ==
    LET username == Strip(d.username)
        email == Strip(d.email)
        password == Strip(d.password)
        confirm == Strip(d.confirm_password)
    IN  [username |->
            IF username = <<>> THEN {"RequiredFieldError"}
            ELSE (IF Lower(username) \in forbidden_usernames
                  THEN {"ReservedWordError"} ELSE {})
                 \cup (IF \E i \in DOMAIN username : username[i] \in {"@", "+", "-"}
                       THEN {"InvalidCharacterError"} ELSE {})
                 \cup (IF \E u \in st : IExact(u.username, username)
                       THEN {"DuplicateUsernameError"} ELSE {}),
         email |->
            IF email = <<>> THEN {"RequiredFieldError"}
            ELSE IF \E u \in st : IExact(u.email, email)
                 THEN {"DuplicateEmailError"} ELSE {},
         password |->
            IF password = <<>> THEN {"RequiredFieldError"} ELSE {},
         confirm_password |->
            IF confirm = <<>> THEN {"RequiredFieldError"}
            ELSE IF password # <<>> /\ password # confirm
                 THEN {"PasswordMismatchError"} ELSE {}]

PassesAll(d, st) == ExpectedErrors(d, st) = NoErrors

\* C4: only a submission that passes every validator and the password-match
\* check changes the table, and what it adds is one fully populated row; a
\* submission that fails any of them leaves the table unchanged.
C4_OnlyValidPersisted ==
    [][store' # store =>
         \E r \in Requests :
            /\ Validated(r)
            /\ PassesAll(data[r], store)
            /\ \E salt \in Salts :
                 store' = store \cup
                    {[username |-> Strip(data[r].username),
                      email |-> Strip(data[r].email),
                      password |-> make_password(salt, Strip(data[r].password)),
                      is_admin |-> FALSE, is_staff |-> FALSE,
                      is_active |-> TRUE]}]_vars

C4_Witness ==
    \E r \in Requests :
        /\ Done(r)
        /\ result[r] = "ValueError"
        /\ ~PassesAll(data[r], store)
        /\ store # {}

\* C5: submitted passwords that are both non-empty and differ get a
\* PasswordMismatchError on confirm_password; an empty one gets no mismatch
\* error; equal non-empty ones with all other fields valid pass validation.
C5_PasswordMismatch ==
    \A r \in Requests :
        Validated(r) =>
            LET p == data[r].password
                c == data[r].confirm_password
            IN  /\ (p # <<>> /\ c # <<>> /\ p # c)
                      => "PasswordMismatchError" \in errors[r]["confirm_password"]
                /\ (p = <<>> \/ c = <<>>)
                      => "PasswordMismatchError" \notin errors[r]["confirm_password"]
                /\ (p # <<>> /\ p = c
                       /\ ExpectedErrors(data[r], store)["username"] = {}
                       /\ ExpectedErrors(data[r], store)["email"] = {})
                      => ~HasErrors(errors[r])

\* C6: a submitted username that matches a persisted username in any case
\* variation gets DuplicateUsernameError, a submitted email that matches a
\* persisted email in any case variation gets DuplicateEmailError, and the
\* sign-up fails.
C6_DuplicateRejected ==
    \A r \in Requests :
        /\ (Validated(r) /\ \E u \in store : IExact(u.username, data[r].username))
              => "DuplicateUsernameError" \in errors[r]["username"]
        /\ (Validated(r) /\ \E u \in store : IExact(u.email, data[r].email))
              => "DuplicateEmailError" \in errors[r]["email"]
        /\ (Done(r) /\ ("DuplicateUsernameError" \in errors[r]["username"]
                        \/ "DuplicateEmailError" \in errors[r]["email"]))
              => result[r] = "ValueError"

C6_Witness ==
    \E r \in Requests :
        /\ Done(r)
        /\ result[r] = "ValueError"
        /\ \E u \in store : /\ u.username # data[r].username
                            /\ IExact(u.username, data[r].username)
        /\ \E u \in store : /\ u.email # data[r].email
                            /\ IExact(u.email, data[r].email)

\* C7 as stated: the username field gets ReservedWordError exactly when the
\* case-folded submitted username is in the denylist.
C7_ReservedAsSubmitted ==
    \A r \in Requests :
        Validated(r) =>
            ("ReservedWordError" \in errors[r]["username"]
                <=> Lower(data[r].username) \in forbidden_usernames)

\* C7 amended: the username field gets ReservedWordError exactly when the
\* submitted username, stripped of surrounding whitespace and case-folded,
\* is in the denylist; such a sign-up persists nothing.
C7_ReservedRejected ==
    \A r \in Requests :
        /\ Validated(r) =>
             ("ReservedWordError" \in errors[r]["username"]
                 <=> Lower(Strip(data[r].username)) \in forbidden_usernames)
        /\ (Done(r) /\ Lower(Strip(data[r].username)) \in forbidden_usernames)
             => /\ result[r] = "ValueError"
                /\ \A u \in store : ~IExact(u.username, Strip(data[r].username))

C7_Witness ==
    \E r \in Requests :
        /\ Done(r)
        /\ data[r].username = S_Js
        /\ errors[r]["username"] = {"ReservedWordError"}
        /\ result[r] = "ValueError"

\* C8: the errors reported for a submission are the union of the failures of
\* every validator of every field and of the password-match check.
C8_AllErrorsReported ==
    \A r \in Requests :
        Validated(r) => errors[r] = ExpectedErrors(data[r], store)

C8_Witness ==
    \E r \in Requests :
        /\ Validated(r)
        /\ "ReservedWordError" \in errors[r]["username"]
        /\ "DuplicateEmailError" \in errors[r]["email"]
        /\ "PasswordMismatchError" \in errors[r]["confirm_password"]

\* C9: after a successful sign-up the stored password is not the submitted
\* plaintext, a credential check with the submitted plaintext succeeds and
\* one with a different plaintext fails.
C9_PasswordRoundTrip ==
    \A r \in Requests :
        (Done(r) /\ result[r] = "returned") =>
            \E u \in store :
                /\ u.username = instance[r].username
                /\ u.password # data[r].password
                /\ check_password(data[r].password, u.password)
                /\ \A other \in {P_p, P_p_, P_q} \ {data[r].password} :
                       ~check_password(other, u.password)

\* C10: every persisted user has is_admin = false, is_staff = false and
\* is_active = true, whatever the submission contains.
C10_DefaultFlags ==
    \A u \in store : ~u.is_admin /\ ~u.is_staff /\ u.is_active

C10_Witness ==
    \E r \in Requests :
        /\ Done(r)
        /\ result[r] = "returned"
        /\ data[r].is_admin
        /\ instance[r] \in store

====
